---- MODULE Spec2Model ----
(***************************************************************************)
(* Model of leetcode_accountability/presenters.py: the two presenters      *)
(* (TextPresenter, HtmlPresenter), their present_stats and write_to_file   *)
(* methods, and the get_presenter factory.                                 *)
(*                                                                         *)
(* Python str values are TLA+ strings; Len, \o and SubSeq act on them      *)
(* character by character.  The three medal emoji (one code point each in  *)
(* Python) are written with one ASCII stand-in character each, because a   *)
(* module is ASCII: U+1F947 is "@", U+1F948 is "&", U+1F949 is "$".  No    *)
(* other text of the model holds these three characters, so they are the   *)
(* characters of a report that are outside ASCII.                          *)
(***************************************************************************)
EXTENDS Integers, Sequences, FiniteSets, TLC

VARIABLES
    stats,      \* present_stats argument user_stats_list
    days,       \* present_stats argument days
    message,    \* present_stats argument completion_message (Optional[str])
    textResult, \* outcome of TextPresenter.present_stats on these arguments
    htmlResult, \* outcome of HtmlPresenter.present_stats on these arguments
    key,        \* get_presenter argument output_type (possibly omitted)
    presenter,  \* class of the object get_presenter returned
    names,      \* base filenames the caller passes to write_to_file
    encoding,   \* the locale encoding open() uses when none is named
    fs,         \* the file system: path |-> file content
    last,       \* the last write_to_file call
    writes      \* number of write_to_file calls made

vars ==
    <<stats, days, message, textResult, htmlResult, key, presenter, names, encoding, fs, last,
      writes>>

(***************************************************************************)
(* Bounds of the model.                                                    *)
(***************************************************************************)
MaxUsers == 4    \* longest user_stats_list
MaxWrites == 3   \* longest sequence of write_to_file calls

(***************************************************************************)
(* Python str primitives.                                                  *)
(***************************************************************************)
Char(s, i) == SubSeq(s, i, i)

RECURSIVE Repeat(_, _)
\* c * n
Repeat(c, n) == IF n <= 0 THEN "" ELSE c \o Repeat(c, n - 1)

\* format spec "<w": pad with spaces on the right up to w, never truncate
LJust(s, w) == IF Len(s) >= w THEN s ELSE s \o Repeat(" ", w - Len(s))

\* str(n) / "{n}" for an int
Str(n) == ToString(n)

\* s.endswith(suffix)
EndsWith(s, suffix) ==
    /\ Len(s) >= Len(suffix)
    /\ SubSeq(s, Len(s) - Len(suffix) + 1, Len(s)) = suffix

UpperLetters == "ABCDEFGHIJKLMNOPQRSTUVWXYZ"
LowerLetters == "abcdefghijklmnopqrstuvwxyz"

LowerChar(c) ==
    IF \E i \in 1..Len(UpperLetters) : Char(UpperLetters, i) = c
    THEN Char(LowerLetters, CHOOSE i \in 1..Len(UpperLetters) : Char(UpperLetters, i) = c)
    ELSE c

RECURSIVE Lower(_)
\* s.lower()
Lower(s) == IF s = "" THEN "" ELSE LowerChar(Char(s, 1)) \o Lower(SubSeq(s, 2, Len(s)))

RECURSIVE Join(_, _)
\* sep.join(parts)
Join(parts, sep) ==
    IF Len(parts) = 0 THEN ""
    ELSE IF Len(parts) = 1 THEN parts[1]
    ELSE parts[1] \o sep \o Join(Tail(parts), sep)

(***************************************************************************)
(* Optional[str]: None, or a str.                                          *)
(***************************************************************************)
None == [isNone |-> TRUE, str |-> ""]
Some(s) == [isNone |-> FALSE, str |-> s]
\* "if completion_message:" - None and the empty str are falsy
Truthy(m) == ~m.isNone /\ m.str # ""

(***************************************************************************)
(* UserStats records and sorted(..., key=total_questions, reverse=True).   *)
(***************************************************************************)
Fields == {"username", "total_questions", "easy_count", "medium_count", "hard_count"}

\* an object on which every attribute present_stats reads exists
WellFormed(st) == Fields \subseteq DOMAIN st

Reverse(s) == [i \in 1..Len(s) |-> s[Len(s) + 1 - i]]

RECURSIVE InsertAsc(_, _)
\* insert x into the ascending list after every element whose key is <= x's
InsertAsc(sortedList, x) ==
    IF Len(sortedList) = 0 THEN <<x>>
    ELSE IF Head(sortedList).total_questions <= x.total_questions
         THEN <<Head(sortedList)>> \o InsertAsc(Tail(sortedList), x)
         ELSE <<x>> \o sortedList

RECURSIVE StableSortAsc(_)
\* the stable ascending sort list.sort performs
StableSortAsc(list) ==
    IF Len(list) = 0 THEN <<>>
    ELSE InsertAsc(StableSortAsc(SubSeq(list, 1, Len(list) - 1)), list[Len(list)])

\* a plausible slip: sort ascending and reverse the result, which turns the
\* order of equal totals around
sorted_then_reversed(list) == Reverse(StableSortAsc(list))

\* sorted(list, key=lambda x: x.total_questions, reverse=True): CPython reverses
\* the list, sorts it stably in ascending order and reverses it again, so equal
\* keys keep their input order
sorted(list) == Reverse(StableSortAsc(Reverse(list)))

(***************************************************************************)
(* TextPresenter.present_stats                                             *)
(***************************************************************************)
RuleWidth == 80
UsernameWidth == 25
TotalWidth == 15
CountWidth == 10

Gold == "@"
Silver == "&"
Bronze == "$"

\* the exception a missing attribute raises, and a normal return
Raise(kind) == [raised |-> kind, parts |-> <<>>, value |-> ""]
\* a normal return of sep.join(parts): the list at the return statement and
\* the str returned
Return(parts, sep) == [raised |-> "", parts |-> parts, value |-> Join(parts, sep)]

\* a slip that gives the bronze medal to every later row as well
TextUsernameDisplaySticky(i, st) ==
    IF i = 0 THEN st.username \o " " \o Gold
    ELSE IF i = 1 THEN st.username \o " " \o Silver
    ELSE st.username \o " " \o Bronze

\* username_display of the row at zero-indexed rank i
TextUsernameDisplay(i, st) ==
    IF i = 0 THEN st.username \o " " \o Gold
    ELSE IF i = 1 THEN st.username \o " " \o Silver
    ELSE IF i = 2 THEN st.username \o " " \o Bronze
    ELSE st.username

\* a slip that writes the hard count in the medium column and back
TextRowSwapped(i, st) ==
    LJust(TextUsernameDisplay(i, st), UsernameWidth) \o " "
        \o LJust(Str(st.total_questions), TotalWidth) \o " "
        \o LJust(Str(st.easy_count), CountWidth) \o " "
        \o LJust(Str(st.hard_count), CountWidth) \o " "
        \o LJust(Str(st.medium_count), CountWidth)

\* the data row of the user at zero-indexed rank i
TextRow(i, st) ==
    LJust(TextUsernameDisplay(i, st), UsernameWidth) \o " "
        \o LJust(Str(st.total_questions), TotalWidth) \o " "
        \o LJust(Str(st.easy_count), CountWidth) \o " "
        \o LJust(Str(st.medium_count), CountWidth) \o " "
        \o LJust(Str(st.hard_count), CountWidth)

TextTitle(d) == "\nLeetCode Statistics (Last " \o Str(d) \o " Days)"
TextRule == Repeat("-", RuleWidth)
TextHeader ==
    LJust("Username", UsernameWidth) \o " " \o LJust("Total Questions", TotalWidth) \o " "
        \o LJust("Easy", CountWidth) \o " " \o LJust("Medium", CountWidth) \o " "
        \o LJust("Hard", CountWidth)

\* a slip that appends the message whenever it is not None
TextFooterNotNone(m) == <<TextRule>> \o (IF ~m.isNone THEN <<m.str>> ELSE <<>>)

\* the closing rule and, "if completion_message:", the message
TextFooter(m) == <<TextRule>> \o (IF Truthy(m) THEN <<m.str>> ELSE <<>>)

\* the list "output" when present_stats joins it
TextOutput(list, d, m) ==
    LET sorted_stats == sorted(list)
    IN  <<TextTitle(d), TextRule, TextHeader, TextRule>>
            \o [i \in 1..Len(sorted_stats) |-> TextRow(i - 1, sorted_stats[i])]
            \o TextFooter(m)

\* a slip that reads the leader, sorted_stats[0], before the loop
TextPresentStatsReadingLeader(list, d, m) ==
    IF \E i \in 1..Len(list) : ~WellFormed(list[i])
    THEN Raise("AttributeError")
    ELSE IF Len(list) = 0 THEN Raise("IndexError")
    ELSE Return(TextOutput(list, d, m), "\n")

\* TextPresenter.present_stats(user_stats_list, days, completion_message)
TextPresenter_present_stats(list, d, m) ==
    IF \E i \in 1..Len(list) : ~WellFormed(list[i])
    THEN Raise("AttributeError")
    ELSE Return(TextOutput(list, d, m), "\n")

(***************************************************************************)
(* HtmlPresenter.present_stats                                             *)
(***************************************************************************)
HtmlHead ==
    << "<!DOCTYPE html>",
       "<html>",
       "<head>",
       "    <meta charset='UTF-8'>",
       "    <meta name='viewport' content='width=device-width, initial-scale=1.0'>",
       "    <title>LeetCode Accountability Report</title>",
       "    <style>",
       "        body { font-family: Arial, sans-serif; margin: 20px; }",
       "        h1 { color: #333; }",
       "        table { border-collapse: collapse; width: 100%; margin-top: 20px; }",
       "        th, td { padding: 12px; text-align: left; border-bottom: 1px solid #ddd; }",
       "        th { background-color: #f2f2f2; }",
       "        tr:hover { background-color: #f5f5f5; }",
       "        .message { margin: 20px 0; padding: 15px; background-color: #f8f9fa; border-left: 5px solid #4285f4; }",
       "        .first-place { font-weight: bold; }",
       "        .medal { font-size: 1.2em; }",
       "    </style>",
       "</head>",
       "<body>" >>

HtmlStatsHeader(d) ==
    << "<h1>LeetCode Statistics (Last " \o Str(d) \o " Days)</h1>",
       "<table>",
       "    <tr>",
       "        <th>Username</th>",
       "        <th>Total Questions</th>",
       "        <th>Easy</th>",
       "        <th>Medium</th>",
       "        <th>Hard</th>",
       "    </tr>" >>

MedalOpen == " <span class=\"medal\">"
MedalClose == "</span>"

\* row_class of the row at zero-indexed rank i
HtmlRowClass(i) == IF i = 0 THEN " class=\"first-place\"" ELSE ""

\* a slip in the elif chain: the second test repeats the first, so rank 1 gets
\* no medal
HtmlMedalSkipping(i) ==
    IF i = 0 THEN MedalOpen \o Gold \o MedalClose
    ELSE IF i = 2 THEN MedalOpen \o Bronze \o MedalClose
    ELSE ""

\* medal of the row at zero-indexed rank i
HtmlMedal(i) ==
    IF i = 0 THEN MedalOpen \o Gold \o MedalClose
    ELSE IF i = 1 THEN MedalOpen \o Silver \o MedalClose
    ELSE IF i = 2 THEN MedalOpen \o Bronze \o MedalClose
    ELSE ""

\* the seven parts of the data row of the user at zero-indexed rank i
HtmlRow(i, st) ==
    << "    <tr" \o HtmlRowClass(i) \o ">",
       "        <td><a href=\"https://leetcode.com/u/" \o st.username
            \o "/\" target=\"_blank\">" \o st.username \o "</a>" \o HtmlMedal(i) \o "</td>",
       "        <td>" \o Str(st.total_questions) \o "</td>",
       "        <td>" \o Str(st.easy_count) \o "</td>",
       "        <td>" \o Str(st.medium_count) \o "</td>",
       "        <td>" \o Str(st.hard_count) \o "</td>",
       "    </tr>" >>

RECURSIVE HtmlRows(_, _)
\* the parts the loop over enumerate(sorted_stats) adds from rank i on
HtmlRows(i, sorted_stats) ==
    IF i >= Len(sorted_stats) THEN <<>>
    ELSE HtmlRow(i, sorted_stats[i + 1]) \o HtmlRows(i + 1, sorted_stats)

\* "</table>", the message div "if completion_message:", and the footer
HtmlTail(m) ==
    <<"</table>">>
        \o (IF Truthy(m) THEN <<"<div class='message'>" \o m.str \o "</div>">> ELSE <<>>)
        \o <<"</body>", "</html>">>

\* the list "html_parts" when present_stats joins it
HtmlParts(list, d, m) ==
    LET sorted_stats == sorted(list)
    IN  HtmlHead \o HtmlStatsHeader(d) \o HtmlRows(0, sorted_stats) \o HtmlTail(m)

\* a slip that passes over the records it cannot read instead of failing
HtmlPresentStatsSkipping(list, d, m) ==
    Return(HtmlParts(SelectSeq(list, WellFormed), d, m), "\n")

\* HtmlPresenter.present_stats(user_stats_list, days, completion_message)
HtmlPresenter_present_stats(list, d, m) ==
    IF \E i \in 1..Len(list) : ~WellFormed(list[i])
    THEN Raise("AttributeError")
    ELSE Return(HtmlParts(list, d, m), "\n")

(***************************************************************************)
(* write_to_file and get_presenter                                         *)
(***************************************************************************)
\* a slip that appends the extension without looking at the filename
TextPathAlways(filename) == filename \o ".txt"

\* the path TextPresenter.write_to_file opens
TextPath(filename) == IF ~EndsWith(filename, ".txt") THEN filename \o ".txt" ELSE filename

\* the path HtmlPresenter.write_to_file opens
HtmlPath(filename) == IF ~EndsWith(filename, ".html") THEN filename \o ".html" ELSE filename

NoFiles == [p \in {} |-> ""]

\* the encodings a process locale can give open(path, "w"), one for each
\* way the codecs treat the characters of a report: "utf-8" for those that
\* encode all of them (the UTF family, GB18030), "ascii" for those that
\* encode every ASCII character and no medal glyph (ASCII, Latin-1, the
\* Windows and EBCDIC code pages, the CJK encodings), and "cp864", which
\* encodes neither the medal glyphs nor "%"
Encodings == {"utf-8", "ascii", "cp864"}

\* the characters of the model's texts that are outside ASCII
NonAscii == {Gold, Silver, Bronze}

\* the characters of the model's texts that enc cannot encode
Unencodable(enc) ==
    CASE enc = "utf-8" -> {}
      [] enc = "ascii" -> NonAscii
      [] enc = "cp864" -> NonAscii \cup {"%"}

\* content.encode(enc) succeeds: no character of content is one that enc
\* cannot encode
Encodable(content, enc) ==
    Unencodable(enc) = {} \/ \A i \in 1..Len(content) : Char(content, i) \notin Unencodable(enc)

\* what f.write(content) raises in a file opened with encoding enc
WriteRaises(content, enc) == IF Encodable(content, enc) THEN "" ELSE "UnicodeEncodeError"

\* a slip that opens the file in append mode
WriteAppending(files, path, content, enc) ==
    [p \in DOMAIN files \cup {path} |->
        IF p = path
        THEN (IF p \in DOMAIN files THEN files[p] ELSE "")
                \o (IF Encodable(content, enc) THEN content ELSE "")
        ELSE files[p]]

\* open(path, "w") and f.write(content): the file is created or truncated;
\* then it holds content alone, or nothing when content cannot be encoded
\* and f.write raises
Write(files, path, content, enc) ==
    [p \in DOMAIN files \cup {path} |->
        IF p = path THEN (IF Encodable(content, enc) THEN content ELSE "") ELSE files[p]]

\* the value of the parameter output_type: the argument, or the default "text"
Absent == [given |-> FALSE, value |-> ""]
Given(s) == [given |-> TRUE, value |-> s]
OutputType(k) == IF k.given THEN k.value ELSE "text"

\* a slip that compares the key without lowering it
get_presenter_case_sensitive(k) ==
    IF OutputType(k) = "html" THEN "HtmlPresenter" ELSE "TextPresenter"

\* get_presenter(output_type="text")
get_presenter(k) ==
    IF Lower(OutputType(k)) = "html" THEN "HtmlPresenter" ELSE "TextPresenter"

\* TextPresenter.write_to_file(filename, content) on the file system files
TextPresenter_write_to_file(files, filename, content, enc) ==
    Write(files, TextPath(filename), content, enc)

\* HtmlPresenter.write_to_file(filename, content) on the file system files
HtmlPresenter_write_to_file(files, filename, content, enc) ==
    Write(files, HtmlPath(filename), content, enc)

(***************************************************************************)
(* Inputs.                                                                 *)
(***************************************************************************)
UserStats(u, t, e, m, h) ==
    [username |-> u, total_questions |-> t, easy_count |-> e, medium_count |-> m,
     hard_count |-> h]

Alice == UserStats("alice", 10, 5, 3, 2)
Bob == UserStats("bob", 10, 2, 2, 6)
Carol == UserStats("carol", 5, 5, 0, 0)
Long == UserStats(Repeat("l", 25), 5, 1, 1, 3)

\* users with equal and distinct totals, one with a username as wide as its field
RankPool == {Alice, Bob, Carol, Long}

\* users whose fields reach or pass the nominal column widths
WidePool ==
    { UserStats(Repeat("u", 23), 12, 5, 4, 3),
      UserStats(Repeat("v", 24), 11, 2147483647, 1, 2),
      UserStats(Repeat("w", 25), 9, 3, 3, 3),
      UserStats(Repeat("x", 26), 2147483647, 7, 1234567890, 8),
      UserStats("dave", 0, 0, 0, 0) }

\* objects that lack attributes present_stats reads, beside well-formed ones
InvalidPool ==
    { Alice, Carol,
      [total_questions |-> 7, easy_count |-> 3, medium_count |-> 2, hard_count |-> 2],
      [username |-> "erin", easy_count |-> 1, medium_count |-> 1, hard_count |-> 1],
      [username |-> "fay", total_questions |-> 4, easy_count |-> 2, medium_count |-> 2],
      [name |-> "gus"] }

RECURSIVE ListsUpTo(_, _)
\* the lists over pool of length at most n
ListsUpTo(pool, n) ==
    IF n = 0 THEN {<<>>}
    ELSE LET shorter == ListsUpTo(pool, n - 1)
         IN  shorter \cup {Append(l, x) : l \in shorter, x \in pool}

\* pairs of days and completion_message
Arguments == {<<7, None>>, <<-3, Some("")>>, <<0, Some("Well done, everyone!")>>}

UpperChar(c) ==
    IF \E i \in 1..Len(LowerLetters) : Char(LowerLetters, i) = c
    THEN Char(UpperLetters, CHOOSE i \in 1..Len(LowerLetters) : Char(LowerLetters, i) = c)
    ELSE c

RECURSIVE CaseVariants(_)
\* the spellings of w in every mix of upper and lower case
CaseVariants(w) ==
    IF w = "" THEN {""}
    ELSE LET c == Char(w, 1)
         IN  {x \o rest : x \in {c, UpperChar(c)}, rest \in CaseVariants(SubSeq(w, 2, Len(w)))}

Words == {"", "html", "text", "htm", "htmls", "xhtml", " html", "json", "h.t.m.l"}
Keys == {Absent} \cup {Given(k) : k \in UNION {CaseVariants(w) : w \in Words}}

Stems == {"", "report", "a", ".", "txt", "html", "report.", "report.tx", "report.htm"}
Suffixes == {"", ".txt", ".html", ".TXT", ".Html", ".txt ", ".md"}
\* base filenames: a stem and two suffixes, each possibly empty
Filenames == {st \o s1 \o s2 : st \in Stems, s1 \in Suffixes, s2 \in Suffixes}
FewNames == {"report", "report.txt", "report.html"}

NotCalled == [called |-> FALSE, raised |-> "", parts |-> <<>>, value |-> ""]
Called(outcome) == [called |-> TRUE] @@ outcome
NoCall == [by |-> "none", filename |-> "", content |-> "", path |-> "", raised |-> ""]

\* what a caller has at hand to write: a fixed text, or a report it rendered
Contents ==
    {"old"} \cup {r.value : r \in {x \in {textResult, htmlResult} : x.called /\ x.raised = ""}}

(***************************************************************************)
(* Initial states.                                                         *)
(***************************************************************************)
Idle ==
    /\ textResult = NotCalled
    /\ htmlResult = NotCalled
    /\ presenter = "none"
    /\ fs = NoFiles
    /\ last = NoCall
    /\ writes = 0

NoRender == stats = <<Alice, Bob, Carol>> /\ days = 7 /\ message = None
Utf8 == encoding = "utf-8"
AnyEncoding == encoding \in Encodings

InitRender ==
    /\ stats \in ListsUpTo(RankPool, MaxUsers)
    /\ \E a \in Arguments : days = a[1] /\ message = a[2]
    /\ key = Absent /\ names = {} /\ Utf8 /\ Idle

InitWide ==
    /\ stats \in ListsUpTo(WidePool, MaxUsers)
    /\ days = 7
    /\ message = None
    /\ key = Absent /\ names = {} /\ Utf8 /\ Idle

InitInvalid ==
    /\ stats \in ListsUpTo(InvalidPool, MaxUsers)
    /\ days = 7
    /\ message = None
    /\ key = Absent /\ names = {} /\ Utf8 /\ Idle

InitPersist ==
    /\ stats \in {<<>>, <<Alice, Bob, Carol>>}
    /\ days = 7
    /\ message = None
    /\ key = Absent /\ names = FewNames /\ AnyEncoding /\ Idle

InitPath ==
    NoRender /\ key = Absent /\ (\E f \in Filenames : names = {f}) /\ AnyEncoding /\ Idle

InitFactory == NoRender /\ key \in Keys /\ names = {} /\ Utf8 /\ Idle

(***************************************************************************)
(* Actions: one per call a caller makes.                                   *)
(***************************************************************************)
PresentText ==
    /\ textResult' = Called(TextPresenter_present_stats(stats, days, message))
    /\ UNCHANGED <<stats, days, message, htmlResult, key, presenter, names, encoding, fs, last, writes>>

PresentHtml ==
    /\ htmlResult' = Called(HtmlPresenter_present_stats(stats, days, message))
    /\ UNCHANGED <<stats, days, message, textResult, key, presenter, names, encoding, fs, last, writes>>

WriteText ==
    /\ writes < MaxWrites
    /\ \E filename \in names, content \in Contents :
          /\ fs' = TextPresenter_write_to_file(fs, filename, content, encoding)
          /\ last' = [by |-> "text", filename |-> filename, content |-> content,
                      path |-> TextPath(filename), raised |-> WriteRaises(content, encoding)]
    /\ writes' = writes + 1
    /\ UNCHANGED <<stats, days, message, textResult, htmlResult, key, presenter, names, encoding>>

WriteHtml ==
    /\ writes < MaxWrites
    /\ \E filename \in names, content \in Contents :
          /\ fs' = HtmlPresenter_write_to_file(fs, filename, content, encoding)
          /\ last' = [by |-> "html", filename |-> filename, content |-> content,
                      path |-> HtmlPath(filename), raised |-> WriteRaises(content, encoding)]
    /\ writes' = writes + 1
    /\ UNCHANGED <<stats, days, message, textResult, htmlResult, key, presenter, names, encoding>>

CallGetPresenter ==
    /\ presenter' = get_presenter(key)
    /\ UNCHANGED <<stats, days, message, textResult, htmlResult, key, names, encoding, fs, last, writes>>

NextRender == PresentText \/ PresentHtml
NextPersist == PresentText \/ PresentHtml \/ WriteText \/ WriteHtml
NextWrite == WriteText \/ WriteHtml
NextFactory == CallGetPresenter

SpecRender == InitRender /\ [][NextRender]_vars
SpecWide == InitWide /\ [][NextRender]_vars
SpecInvalid == InitInvalid /\ [][NextRender]_vars
SpecPersist == InitPersist /\ [][NextPersist]_vars
SpecPath == InitPath /\ [][NextWrite]_vars
SpecFactory == InitFactory /\ [][NextFactory]_vars

Init == InitRender
Next == NextRender
Spec == SpecRender

(***************************************************************************)
(* Reading a report back.  The repository holds no parser; these follow    *)
(* the report layouts the specification states.                            *)
(***************************************************************************)
\* positions of sub in s
Occurrences(s, sub) ==
    {i \in 1..(Len(s) - Len(sub) + 1) : SubSeq(s, i, i + Len(sub) - 1) = sub}

Contains(s, sub) == Occurrences(s, sub) # {}
StartsWith(s, prefix) == Len(s) >= Len(prefix) /\ SubSeq(s, 1, Len(prefix)) = prefix

Min(S) == CHOOSE x \in S : \A y \in S : x <= y
Max(S) == CHOOSE x \in S : \A y \in S : x >= y

RECURSIVE NextCut(_, _, _)
\* the first position from i on that holds sep, or Len(s) + 1
NextCut(s, sep, i) ==
    IF i > Len(s) THEN Len(s) + 1
    ELSE IF Char(s, i) = sep THEN i
    ELSE NextCut(s, sep, i + 1)

\* s.split(): the maximal runs of characters other than the space
Tokens(s) ==
    LET starts == {i \in 1..Len(s) : Char(s, i) # " " /\ (i = 1 \/ Char(s, i - 1) = " ")}
        start(k) == CHOOSE i \in starts : Cardinality({j \in starts : j < i}) = k - 1
    IN  [k \in 1..Cardinality(starts) |-> SubSeq(s, start(k), NextCut(s, " ", start(k)) - 1)]

\* s.strip() of spaces
Strip(s) ==
    LET solid == {i \in 1..Len(s) : Char(s, i) # " "}
    IN  IF solid = {} THEN "" ELSE SubSeq(s, Min(solid), Max(solid))

Digits == "0123456789"
DigitValue(c) == (CHOOSE i \in 1..Len(Digits) : Char(Digits, i) = c) - 1
IsNumeral(s) ==
    /\ Len(s) \in 1..10
    /\ \A i \in 1..Len(s) : Contains(Digits, Char(s, i))

RECURSIVE NumeralValue(_)
NumeralValue(s) ==
    IF Len(s) = 0 THEN 0
    ELSE 10 * NumeralValue(SubSeq(s, 1, Len(s) - 1)) + DigitValue(Char(s, Len(s)))

Unreadable == 0 - 1
\* int(s) for a decimal numeral; Unreadable for any other text
ParseInt(s) == IF IsNumeral(s) THEN NumeralValue(s) ELSE Unreadable

Medals == {Gold, Silver, Bronze}
Core(st) ==
    [username |-> st.username, total_questions |-> st.total_questions,
     easy_count |-> st.easy_count, medium_count |-> st.medium_count,
     hard_count |-> st.hard_count]
Tuple(u, medal, t, e, m, h) == Core(UserStats(u, t, e, m, h)) @@ [medal |-> medal]
NoTuple == Tuple("", "", Unreadable, Unreadable, Unreadable, Unreadable)

\* the data rows among the parts of a text report: those between the rule
\* under the column header and the closing rule
TextDataRows(parts) ==
    LET rules == {i \in 1..Len(parts) : parts[i] = TextRule}
    IN  IF Cardinality(rules) < 3 THEN <<>> ELSE SubSeq(parts, 5, Max(rules) - 1)

\* a text row read by its words: username, medal if any, and four numbers
TextReadRow(row) ==
    LET t == Tokens(row)
        n == Len(t)
    IN  IF n = 5 THEN Tuple(t[1], "", ParseInt(t[2]), ParseInt(t[3]), ParseInt(t[4]),
                            ParseInt(t[5]))
        ELSE IF n = 6 /\ t[2] \in Medals
             THEN Tuple(t[1], t[2], ParseInt(t[3]), ParseInt(t[4]), ParseInt(t[5]),
                        ParseInt(t[6]))
        ELSE NoTuple

TextRead(parts) ==
    LET rows == TextDataRows(parts) IN [k \in 1..Len(rows) |-> TextReadRow(rows[k])]

\* a text row split on the fixed field boundaries: the four numeric fields
TextField(row, first, width) ==
    Strip(SubSeq(row, first, Min({Len(row), first + width - 1})))

TextSplitRow(row) ==
    LET totalAt == UsernameWidth + 2
        easyAt == totalAt + TotalWidth + 1
        mediumAt == easyAt + CountWidth + 1
        hardAt == mediumAt + CountWidth + 1
    IN  [total_questions |-> ParseInt(TextField(row, totalAt, TotalWidth)),
         easy_count |-> ParseInt(TextField(row, easyAt, CountWidth)),
         medium_count |-> ParseInt(TextField(row, mediumAt, CountWidth)),
         hard_count |-> ParseInt(TextField(row, hardAt, CountWidth))]

TextSplit(parts) ==
    LET rows == TextDataRows(parts) IN [k \in 1..Len(rows) |-> TextSplitRow(rows[k])]

RowLines == 7

\* the data lines among the parts of an HTML report: those between the
\* header row and "</table>"
HtmlDataLines(parts) ==
    LET first == Len(HtmlHead) + Len(HtmlStatsHeader(0)) + 1
        closing == {i \in 1..Len(parts) : parts[i] = "</table>"}
    IN  IF closing = {} THEN <<>> ELSE SubSeq(parts, first, Min(closing) - 1)

\* the text of a <td> cell
Cell(line) ==
    LET open == "        <td>"
        close == "</td>"
    IN  IF StartsWith(line, open) /\ EndsWith(line, close)
        THEN SubSeq(line, Len(open) + 1, Len(line) - Len(close))
        ELSE ""

Between(s, left, right) ==
    IF Contains(s, left) /\ Contains(s, right)
    THEN SubSeq(s, Min(Occurrences(s, left)) + Len(left), Max(Occurrences(s, right)) - 1)
    ELSE ""

After(s, mark) ==
    IF Contains(s, mark) THEN SubSeq(s, Max(Occurrences(s, mark)) + Len(mark), Len(s))
    ELSE ""

\* the k-th table row, of the data lines rows, read by its cells
HtmlReadRow(rows, k) ==
    LET base == (k - 1) * RowLines
        user == Cell(rows[base + 2])
        tail == After(user, "</a>")
        medal == IF tail = "" THEN "" ELSE Between(tail, MedalOpen, MedalClose)
    IN  Tuple(Between(user, "target=\"_blank\">", "</a>"), medal,
              ParseInt(Cell(rows[base + 3])), ParseInt(Cell(rows[base + 4])),
              ParseInt(Cell(rows[base + 5])), ParseInt(Cell(rows[base + 6])))

HtmlRead(parts) ==
    LET rows == HtmlDataLines(parts)
    IN  [k \in 1..(Len(rows) \div RowLines) |-> HtmlReadRow(rows, k)]

Numbers(t) ==
    [total_questions |-> t.total_questions, easy_count |-> t.easy_count,
     medium_count |-> t.medium_count, hard_count |-> t.hard_count]

TextOk == textResult.called /\ textResult.raised = ""
HtmlOk == htmlResult.called /\ htmlResult.raised = ""

(***************************************************************************)
(* Claims about the ranking, the rows and the message (SpecRender).        *)
(***************************************************************************)
Cores(tuples) == [k \in 1..Len(tuples) |-> Core(tuples[k])]

\* rows is input rearranged so that totals never increase and records with
\* equal totals keep their input order
StablyRanked(rows, input) ==
    /\ Len(rows) = Len(input)
    /\ \E p \in Permutations(1..Len(input)) :
          /\ \A k \in 1..Len(input) : rows[k] = Core(input[p[k]])
          /\ \A j, k \in 1..Len(input) :
                j < k =>
                    \/ input[p[j]].total_questions > input[p[k]].total_questions
                    \/ /\ input[p[j]].total_questions = input[p[k]].total_questions
                       /\ p[j] < p[k]

\* C1: in both reports the data rows are the input records, each once, in
\* non-increasing total_questions order, equal totals in input order.
C1_RowsStablySorted ==
    /\ TextOk => StablyRanked(Cores(TextRead(textResult.parts)), stats)
    /\ HtmlOk => StablyRanked(Cores(HtmlRead(htmlResult.parts)), stats)

C1_Witness ==
    /\ TextOk /\ HtmlOk
    /\ stats = <<Carol, Bob, Long, Alice>>
    /\ Cores(HtmlRead(htmlResult.parts)) = <<Bob, Alice, Carol, Long>>
    /\ Cores(TextRead(textResult.parts)) = <<Bob, Alice, Carol, Long>>

\* the marker the row at one-indexed position k is to carry
MedalAt(k) == IF k = 1 THEN Gold ELSE IF k = 2 THEN Silver ELSE IF k = 3 THEN Bronze ELSE ""

MedalsInPlace(tuples) ==
    /\ Len(tuples) = Len(stats)
    /\ \A k \in 1..Len(tuples) : tuples[k].medal = MedalAt(k)
    /\ Cardinality({k \in 1..Len(tuples) : tuples[k].medal # ""})
          = (IF Len(stats) < 3 THEN Len(stats) ELSE 3)

\* C2: in both reports the first row carries gold, the second silver, the
\* third bronze and no later row a marker, so min(n, 3) rows are marked.
C2_MedalsOnTopThree ==
    /\ TextOk => MedalsInPlace(TextRead(textResult.parts))
    /\ HtmlOk => MedalsInPlace(HtmlRead(htmlResult.parts))

C2_Witness ==
    /\ TextOk /\ HtmlOk
    /\ Len(stats) >= 4
    /\ TextRead(textResult.parts)[4].medal = ""
    /\ HtmlRead(htmlResult.parts)[3].medal = Bronze

TitleText(d) == "LeetCode Statistics (Last " \o Str(d) \o " Days)"

\* C9: the text report and the HTML report of the same arguments show the
\* same rows (username, numbers and medal) in the same order and the same
\* days in their titles.
C9_RenderersAgree ==
    (TextOk /\ HtmlOk) =>
        /\ TextRead(textResult.parts) = HtmlRead(htmlResult.parts)
        /\ Len(TextRead(textResult.parts)) = Len(stats)
        /\ StartsWith(textResult.value, "\n" \o TitleText(days) \o "\n")
        /\ htmlResult.parts[Len(HtmlHead) + 1] = "<h1>" \o TitleText(days) \o "</h1>"

C9_Witness ==
    /\ TextOk /\ HtmlOk
    /\ stats = <<Long, Alice, Bob>>
    /\ days = 0
    /\ TextRead(textResult.parts)[3] = Tuple(Long.username, Bronze, 5, 1, 1, 3)

Rule80 == "--------------------------------------------------------------------------------"
ColumnHeader == "Username                  Total Questions Easy       Medium     Hard      "

\* C6: for an empty list both renderers return a report: the text report is
\* the blank line, the title, the rule, the column header, the rule and the
\* closing rule with no row between them (and then the message, if one is
\* appended); the HTML report has the heading and the header row, no data
\* row, no first-place row and no medal.
C6_EmptyListReport ==
    stats = <<>> =>
        /\ textResult.called =>
              /\ textResult.raised = ""
              /\ textResult.value
                    = "\n" \o TitleText(days) \o "\n" \o Rule80 \o "\n" \o ColumnHeader
                        \o "\n" \o Rule80 \o "\n" \o Rule80
                        \o (IF Truthy(message) THEN "\n" \o message.str ELSE "")
              /\ Len(Rule80) = RuleWidth
        /\ htmlResult.called =>
              /\ htmlResult.raised = ""
              /\ LET ls == htmlResult.parts
                     h == Len(HtmlHead)
                 IN  /\ ls[h + 1] = "<h1>" \o TitleText(days) \o "</h1>"
                     /\ SubSeq(ls, h + 2, h + 10)
                           = <<"<table>", "    <tr>", "        <th>Username</th>",
                               "        <th>Total Questions</th>", "        <th>Easy</th>",
                               "        <th>Medium</th>", "        <th>Hard</th>",
                               "    </tr>", "</table>">>
                     /\ \A i \in 1..Len(ls) :
                           /\ ~Contains(ls[i], "<td>")
                           /\ ~Contains(ls[i], "<tr class=")
                           /\ ~Contains(ls[i], "<span")

C6_Witness ==
    /\ stats = <<>>
    /\ TextOk /\ HtmlOk
    /\ message = None
    /\ Len(textResult.parts) = 5
    /\ Len(HtmlRead(htmlResult.parts)) = 0

MessageDiv(m) == "<div class='message'>" \o m.str \o "</div>"

\* C7 as stated: whenever completion_message is a str (not None), the text
\* report ends with it after the closing rule and the HTML report holds it
\* in the message div after the table.
C7_AnyStringAppended ==
    ~message.isNone =>
        /\ TextOk => EndsWith(textResult.value, "\n" \o Rule80 \o "\n" \o message.str)
        /\ HtmlOk => EndsWith(htmlResult.value,
                              "</table>\n" \o MessageDiv(message) \o "\n</body>\n</html>")

\* C7 amended: a non-empty completion_message ends the text report after the
\* closing rule and stands in the message div after the table; None and the
\* empty str add nothing: the text report ends with the closing rule and the
\* HTML report has no message div.
C7_NonEmptyMessageAppended ==
    /\ TextOk =>
          IF Truthy(message)
          THEN EndsWith(textResult.value, "\n" \o Rule80 \o "\n" \o message.str)
          ELSE /\ EndsWith(textResult.value, "\n" \o Rule80)
               /\ Len(textResult.parts) = 5 + Len(stats)
    /\ HtmlOk =>
          IF Truthy(message)
          THEN EndsWith(htmlResult.value,
                        "</table>\n" \o MessageDiv(message) \o "\n</body>\n</html>")
          ELSE /\ EndsWith(htmlResult.value, "</table>\n</body>\n</html>")
               /\ \A i \in 1..Len(htmlResult.parts) : ~StartsWith(htmlResult.parts[i], "<div")

C7_Witness ==
    /\ TextOk /\ HtmlOk
    /\ message = Some("Well done, everyone!")
    /\ Len(stats) = 2
    /\ textResult.parts[Len(textResult.parts)] = "Well done, everyone!"
    /\ htmlResult.parts[Len(htmlResult.parts) - 2]
          = "<div class='message'>Well done, everyone!</div>"

(***************************************************************************)
(* Claims about the round trip (SpecWide).                                 *)
(***************************************************************************)
\* the row at one-indexed rank k shows st within the nominal field widths:
\* the top three usernames are followed by a space and the medal
FitsColumns(k, st) ==
    /\ Len(st.username) + (IF k <= 3 THEN 2 ELSE 0) <= UsernameWidth
    /\ Len(Str(st.total_questions)) <= TotalWidth
    /\ Len(Str(st.easy_count)) <= CountWidth
    /\ Len(Str(st.medium_count)) <= CountWidth
    /\ Len(Str(st.hard_count)) <= CountWidth

\* C8 as stated: splitting every text row on the fixed field boundaries and
\* reading the cells of every HTML row gives back the four numbers of the
\* record shown in that row.
C8_RoundTripEveryRow ==
    /\ TextOk =>
          \A k \in 1..Len(stats) :
              TextSplit(textResult.parts)[k] = Numbers(sorted(stats)[k])
    /\ HtmlOk =>
          \A k \in 1..Len(stats) :
              Numbers(HtmlRead(htmlResult.parts)[k]) = Numbers(sorted(stats)[k])

\* C8 amended: the cells of every HTML row give back the four numbers of
\* the record; the fixed-boundary split of a text row gives them back when
\* the row's fields fit their widths (username with its medal suffix at
\* most 25 characters, total at most 15 digits, the counts at most 10).
C8_RoundTripFittingRows ==
    /\ TextOk =>
          /\ Len(TextSplit(textResult.parts)) = Len(stats)
          /\ \A k \in 1..Len(stats) :
                FitsColumns(k, sorted(stats)[k]) =>
                    TextSplit(textResult.parts)[k] = Numbers(sorted(stats)[k])
    /\ HtmlOk =>
          /\ Len(HtmlRead(htmlResult.parts)) = Len(stats)
          /\ \A k \in 1..Len(stats) :
                Numbers(HtmlRead(htmlResult.parts)[k]) = Numbers(sorted(stats)[k])

C8_Witness ==
    /\ TextOk /\ HtmlOk
    /\ Len(stats) = 4
    /\ Len(stats[1].username) = 23 /\ stats[1].total_questions = 12
    /\ Len(stats[2].username) = 25 /\ stats[3] = stats[2] /\ stats[4] = stats[2]
    /\ FitsColumns(1, sorted(stats)[1])
    /\ FitsColumns(4, sorted(stats)[4]) /\ ~FitsColumns(3, sorted(stats)[3])
    /\ TextSplit(textResult.parts)[1] = Numbers(stats[1])
    /\ TextSplit(textResult.parts)[4] = Numbers(stats[4])

(***************************************************************************)
(* Claims about malformed input (SpecInvalid).                             *)
(***************************************************************************)
Malformed == \E i \in 1..Len(stats) : ~(Fields \subseteq DOMAIN stats[i])

\* C5 as stated: a record lacking a required field makes present_stats fail
\* with InvalidInputError.
C5_InvalidInputError ==
    /\ (textResult.called /\ Malformed) => textResult.raised = "InvalidInputError"
    /\ (htmlResult.called /\ Malformed) => htmlResult.raised = "InvalidInputError"

\* C5 amended: a record lacking one of the five fields makes present_stats
\* of either renderer fail with AttributeError, the error of the attribute
\* access itself; the call returns no report and writes no file, and a list
\* of complete records raises nothing.
C5_AttributeErrorAtRender ==
    /\ \A r \in {textResult, htmlResult} :
          r.called =>
              IF Malformed
              THEN r.raised = "AttributeError" /\ r.value = "" /\ r.parts = <<>>
              ELSE r.raised = "" /\ r.value # ""
    /\ fs = NoFiles

C5_Witness ==
    /\ Malformed
    /\ Len(stats) = 3
    /\ WellFormed(stats[1]) /\ WellFormed(stats[2])
    /\ DOMAIN stats[3] = Fields \ {"hard_count"}
    /\ textResult.raised = "AttributeError"
    /\ htmlResult.raised = "AttributeError"

(***************************************************************************)
(* Claims about write_to_file (SpecPath, SpecPersist).                     *)
(***************************************************************************)
Extension(by) == IF by = "text" THEN ".txt" ELSE ".html"

RECURSIVE Trailing(_, _)
\* how many times s ends with ext, one copy behind the other
Trailing(s, ext) ==
    IF EndsWith(s, ext) THEN 1 + Trailing(SubSeq(s, 1, Len(s) - Len(ext)), ext) ELSE 0

Resolve(by, filename) == IF by = "text" THEN TextPath(filename) ELSE HtmlPath(filename)

\* C3 as stated: the path written always ends with the renderer's extension
\* exactly once.
C3_ExtensionExactlyOnce ==
    last.by # "none" => Trailing(last.path, Extension(last.by)) = 1

\* C3 amended: the path written is the filename when the filename ends with
\* the renderer's extension and the filename followed by the extension
\* otherwise; it always ends with the extension, resolving it again changes
\* nothing, and the rule adds no second copy: the path ends with the
\* extension once unless the filename given already ended with it more
\* than once, and then as often as the filename did.
C3_ExtensionAppendedIfAbsent ==
    last.by # "none" =>
        LET ext == Extension(last.by)
            given == Trailing(last.filename, ext)
        IN  /\ last.path = (IF given = 0 THEN last.filename \o ext ELSE last.filename)
            /\ Trailing(last.path, ext) = (IF given = 0 THEN 1 ELSE given)
            /\ Resolve(last.by, last.path) = last.path
            /\ last.path \in DOMAIN fs
            /\ (last.filename = "report" /\ last.by = "text") => last.path = "report.txt"
            /\ (last.filename = "report" /\ last.by = "html") => last.path = "report.html"
            /\ (last.filename = "report.txt" /\ last.by = "text") => last.path = "report.txt"

C3_Witness ==
    /\ last.by = "text"
    /\ last.filename = "report.txt"
    /\ DOMAIN fs = {"report.txt", "report.txt.html"}

\* C10: a write_to_file call that succeeds leaves its target holding the
\* content of that call alone, and every call leaves every other file as it
\* was; a text renderer writes only paths ending in ".txt" and an HTML
\* renderer only paths ending in ".html", so neither touches a file of the
\* other; present_stats writes no file and leaves the input list as it was.
C10_WriteOverwritesTargetOnly ==
    [][ /\ writes' = writes + 1 =>
              /\ last'.path = Resolve(last'.by, last'.filename)
              /\ EndsWith(last'.path, Extension(last'.by))
              /\ DOMAIN fs' = DOMAIN fs \cup {last'.path}
              /\ last'.raised = "" => fs'[last'.path] = last'.content
              /\ \A p \in DOMAIN fs : p # last'.path => fs'[p] = fs[p]
              /\ \A p \in DOMAIN fs :
                    (last'.by = "text" /\ EndsWith(p, ".html")) => fs'[p] = fs[p]
              /\ \A p \in DOMAIN fs :
                    (last'.by = "html" /\ EndsWith(p, ".txt")) => fs'[p] = fs[p]
        /\ writes' = writes => fs' = fs
        /\ stats' = stats
      ]_vars

C10_Witness ==
    /\ TextOk
    /\ stats = <<Alice, Bob, Carol>>
    /\ writes = 3
    /\ DOMAIN fs = {"report.txt", "report.html"}
    /\ fs["report.txt"] = textResult.value
    /\ fs["report.html"] = "old"
    /\ last.by = "text" /\ last.filename = "report.txt" /\ last.raised = ""

\* a write that cannot encode its content raises and leaves the target empty
WriteFailureReached ==
    /\ encoding = "ascii"
    /\ last.raised = "UnicodeEncodeError"
    /\ last.content = textResult.value
    /\ fs[last.path] = ""

\* so does the write of a report without medals that holds "%", the HTML
\* report of an empty list, where the encoding has no "%"
GlyphFreeWriteFailureReached ==
    /\ encoding = "cp864"
    /\ stats = <<>>
    /\ HtmlOk
    /\ last.raised = "UnicodeEncodeError"
    /\ last.content = htmlResult.value
    /\ fs[last.path] = ""

\* while the text report of an empty list, which holds no "%", is written
GlyphFreeWriteReached ==
    /\ encoding = "cp864"
    /\ stats = <<>>
    /\ TextOk
    /\ last.raised = ""
    /\ last.content = textResult.value
    /\ fs[last.path] = textResult.value

(***************************************************************************)
(* Claims about get_presenter (SpecFactory).                               *)
(***************************************************************************)
\* C4: get_presenter returns a presenter for every key, the HTML presenter
\* exactly when the key is "html" in some mix of upper and lower case and
\* the text presenter otherwise, also when the key is omitted.
C4_FactoryTotal ==
    presenter # "none" =>
        /\ presenter \in {"TextPresenter", "HtmlPresenter"}
        /\ presenter = "HtmlPresenter" <=> (key.given /\ key.value \in CaseVariants("html"))

C4_Witness ==
    /\ key = Given("hTmL")
    /\ presenter = "HtmlPresenter"

====
